---- MODULE Spec2Model ----
(***************************************************************************)
(* A model of peeweext/__init__.py: the timezone-safe DatetimeTZField, the *)
(* lifecycle-hooked Model base type (pre_init / pre_save / post_save /     *)
(* pre_delete / post_delete signals, to_dict) and SmartDatabase.execute.   *)
(*                                                                         *)
(* Time is counted in whole hours since an epoch; a UTC offset is a whole  *)
(* number of hours.                                                        *)
(***************************************************************************)
EXTENDS Integers, Sequences, FiniteSets, TLC

VARIABLES
    \* ---- DatetimeTZField round trip ----
    fpc,        \* position in the write/store/read cycle of one field value
    fIn,        \* the value handed to db_value
    fDb,        \* the outcome of db_value
    fRaw,       \* what the database driver hands back for the stored value
    fOut,       \* the outcome of python_value
    \* ---- Model ----
    pc,         \* position of the running Model method ("idle" when none,
                \* "returned" when it has just returned or raised)
    op,         \* the Model method that runs or ran last
    alive,      \* a constructed record exists
    pk,         \* the record's primary key: <<>> is None, <<n>> is the value n
    updated_at, \* the record's updated_at field
    clock,      \* the system's UTC clock (hours)
    pending,    \* receivers of the signal being sent that have not run yet
    args,       \* how the caller passed force_insert to save
    only,       \* the only= option the caller passed to save
    created,    \* the local variable created of save
    ret,        \* the local variable ret of save / delete_instance
    table,      \* the persisted rows: a set of [pk, updated_at], one per key
    outcome,    \* how the last Model method ended
    events,     \* history: what the running / last call did, in order
    before,     \* history: the record's fields when the call started
    touched,    \* history: <<v>> when _touch_model set updated_at to v in this call
    mutated,    \* history: an outside receiver assigned updated_at in this call
    failed,     \* history: <<signal>> when a receiver of that signal raised in this call
    \* ---- SmartDatabase ----
    dpc,        \* per thread: position inside execute ("idle" when not in it)
    frames,     \* per thread: the caller's open blocks, "ctx" / "atomic", innermost last
    conn,       \* per thread: the connection it holds, 0 when closed
    pool,       \* the pool's idle connections
    call        \* per thread, history: facts about the running / last execute

fieldVars == <<fpc, fIn, fDb, fRaw, fOut>>
modelVars == <<pc, op, alive, pk, updated_at, clock, pending, args, only,
               created, ret, table, outcome, events, before, touched, mutated, failed>>
dbVars    == <<dpc, frames, conn, pool, call>>
vars      == <<fieldVars, modelVars, dbVars>>

(***************************************************************************)
(* Bounds                                                                  *)
(***************************************************************************)
MaxWall == 3        \* wall-clock readings 0..MaxWall
MaxOff == 2         \* UTC offsets -MaxOff..MaxOff
MaxClock == 1       \* the clock runs 0..MaxClock
MaxPk == 1          \* callers set the primary keys 0..MaxPk
MaxObservers == 1   \* receivers connected by code outside the module
MaxConns == 1       \* the pool's max_connections
MaxDepth == 2       \* blocks a caller nests

(***************************************************************************)
(* Values                                                                  *)
(***************************************************************************)
\* tz: <<>> for a naive datetime, <<o>> for an aware one at UTC offset o.
\* text: the fields of a textual timestamp, <<day, hour>> or <<day, hour, offset>>.
Val(kind, wall, tz, text) == [kind |-> kind, wall |-> wall, tz |-> tz, text |-> text]
NoneVal == Val("None", 0, <<>>, <<>>)
IntVal(n) == Val("int", n, <<>>, <<>>)
DateVal(d) == Val("date", d, <<>>, <<>>)
StrVal(t) == Val("str", 0, <<>>, t)
Datetime(wall, tz) == Val("datetime", wall, tz, <<>>)
Pendulum(wall, tz) == Val("Pendulum", wall, tz, <<>>)

\* isinstance(value, datetime.datetime): pendulum.Pendulum subclasses datetime.
IsDatetime(v) == v.kind \in {"datetime", "Pendulum"}
utcoffset(v) == v.tz
IsAware(v) == IsDatetime(v) /\ utcoffset(v) # <<>>
Instant(v) == v.wall - v.tz[1]

Ok(v) == [ok |-> TRUE, val |-> v, exc |-> "", msg |-> ""]
Raise(e, m) == [ok |-> FALSE, val |-> NoneVal, exc |-> e, msg |-> m]

Offsets == (0 - MaxOff)..MaxOff
Walls == 0..MaxWall
FieldInputs ==
    {NoneVal, IntVal(1), DateVal(0), StrVal(<<0, 1>>)}
    \cup {Datetime(w, <<>>) : w \in Walls}
    \cup {Datetime(w, <<o>>) : w \in Walls, o \in Offsets}
    \cup {Pendulum(w, <<o>>) : w \in Walls, o \in Offsets}

(***************************************************************************)
(* DatetimeTZField                                                         *)
(***************************************************************************)
\* (mutant) the offset is replaced, the wall clock kept: datetime.replace(tzinfo=utc)
astimezone_replace(v) == Datetime(v.wall, <<0>>)

\* datetime.astimezone(datetime.timezone.utc)
astimezone_utc(v) == Datetime(Instant(v), <<0>>)

\* Pendulum._datetime: the plain datetime a Pendulum wraps
UnwrapPendulum(v) == Datetime(v.wall, v.tz)

\* (mutant) the check of utcoffset() is missing: a naive datetime is taken as UTC
db_value_unchecked(value) ==
    IF value.kind = "None" THEN Ok(value)
    ELSE IF ~IsDatetime(value) THEN Raise("ValueError", "datetime instance required")
    ELSE Ok(Datetime(IF utcoffset(value) = <<>> THEN value.wall ELSE Instant(value), <<0>>))

db_value(value) ==
    IF value.kind = "None" THEN Ok(value)
    ELSE IF ~IsDatetime(value) THEN Raise("ValueError", "datetime instance required")
    ELSE IF utcoffset(value) = <<>>
        THEN Raise("ValueError", "timezone aware datetime required")
    ELSE Ok(astimezone_utc(IF value.kind = "Pendulum" THEN UnwrapPendulum(value)
                                                        ELSE value))

\* pendulum.parse: a timestamp text without an offset is read as UTC
parse(text) ==
    IF Len(text) < 2 \/ text[2] \notin 0..23
        THEN Raise("ParserError", "invalid timestamp text")
        ELSE Ok(Pendulum(text[1] * 24 + text[2],
                         IF Len(text) >= 3 THEN <<text[3]>> ELSE <<0>>))

\* pendulum.instance: a naive datetime is taken to be UTC
instance(dt) == Pendulum(dt.wall, IF dt.tz = <<>> THEN <<0>> ELSE dt.tz)

python_value(value) ==
    IF value.kind = "str" THEN parse(value.text)
    ELSE IF IsDatetime(value) THEN Ok(instance(value))
    ELSE Ok(value)

\* What the database driver returns for a stored value (NULL for None):
\*   "naive"       a timezone-naive datetime holding the stored wall clock (MySQL DATETIME(6))
\*   "aware"       an aware datetime at the session's UTC offset o (PostgreSQL TIMESTAMPTZ)
\*   "text"        the ISO text of the stored datetime, offset included (SQLite)
\*   "text_naive"  the ISO text of the stored wall clock, no offset
Drivers == {"naive", "aware", "text", "text_naive"}
isoformat(d, withOffset) ==
    StrVal(<<d.wall \div 24, d.wall % 24>> \o (IF withOffset THEN d.tz ELSE <<>>))
Fetch(driver, o, stored) ==
    IF stored.kind = "None" THEN stored
    ELSE CASE driver = "naive" -> Datetime(stored.wall, <<>>)
           [] driver = "aware" -> Datetime(Instant(stored) + o, <<o>>)
           [] driver = "text" -> isoformat(stored, TRUE)
           [] driver = "text_naive" -> isoformat(stored, FALSE)

FieldInit ==
    /\ fpc = "new"
    /\ fIn = NoneVal
    /\ fDb = Ok(NoneVal)
    /\ fRaw = NoneVal
    /\ fOut = Ok(NoneVal)

\* the engine converts the field's value for the INSERT / UPDATE
FieldWrite ==
    /\ fpc = "new"
    /\ fDb' = db_value(fIn)
    /\ fpc' = IF fDb'.ok THEN "written" ELSE "failed"
    /\ UNCHANGED <<fIn, fRaw, fOut>>
    /\ UNCHANGED <<modelVars, dbVars>>

\* the row is selected back through some driver
FieldFetch(driver, o) ==
    /\ fpc = "written"
    /\ fRaw' = Fetch(driver, o, fDb.val)
    /\ fpc' = "fetched"
    /\ UNCHANGED <<fIn, fDb, fOut>>
    /\ UNCHANGED <<modelVars, dbVars>>

\* the engine converts the fetched value for the record
FieldRead ==
    /\ fpc = "fetched"
    /\ fOut' = python_value(fRaw)
    /\ fpc' = "read"
    /\ UNCHANGED <<fIn, fDb, fRaw>>
    /\ UNCHANGED <<modelVars, dbVars>>

\* another value is assigned to the field
FieldAssign(v) ==
    /\ fpc \in {"failed", "read"}
    /\ fIn' = v
    /\ fpc' = "new"
    /\ fDb' = Ok(NoneVal)
    /\ fRaw' = NoneVal
    /\ fOut' = Ok(NoneVal)
    /\ UNCHANGED <<modelVars, dbVars>>

FieldNext ==
    \/ FieldWrite
    \/ \E d \in Drivers, o \in Offsets : FieldFetch(d, o)
    \/ FieldRead
    \/ \E v \in FieldInputs : FieldAssign(v)

(***************************************************************************)
(* Signals                                                                 *)
(***************************************************************************)
Signals == {"pre_init", "pre_save", "post_save", "pre_delete", "post_delete"}

\* Receivers code outside the module may connect: one that returns, one that
\* raises, one that assigns the instance's updated_at.
External == {"ok", "raise", "mutate"}

\* the registry after the module is loaded: pre_save.connect(_touch_model)
ModuleReceivers == [s \in Signals |-> IF s = "pre_save" THEN {"_touch_model"} ELSE {}]

PreSignal(o) ==
    CASE o = "__init__" -> "pre_init"
      [] o = "save" -> "pre_save"
      [] o = "delete_instance" -> "pre_delete"
PostSignal(o) == IF o = "save" THEN "post_save" ELSE "post_delete"
Sending == IF pc \in {"send_pre", "recv_pre"} THEN PreSignal(op) ELSE PostSignal(op)

Event(name, flag) == [name |-> name, created |-> flag]

(***************************************************************************)
(* Model                                                                   *)
(***************************************************************************)
utcnow == Pendulum(clock, <<0>>)

PkValues == {<<>>} \cup {<<n>> : n \in 0..MaxPk}
\* bool(pk_value)
Bool(pk_value) == pk_value # <<>> /\ pk_value[1] # 0

\* The engine's table
TableKeys(t) == {r.pk : r \in t}
Without(t, k) == {r \in t : r.pk # k}
Put(t, k, v) == Without(t, k) \cup {[pk |-> k, updated_at |-> v]}
\* the key an auto-incrementing INSERT gives: one above the greatest key present
NextId(t) ==
    IF t = {} THEN 1
    ELSE 1 + (CHOOSE k \in TableKeys(t) : \A j \in TableKeys(t) : j <= k)

\* How a caller passes force_insert to save(*args, **kwargs)
SaveArgs == {"absent", "kw_true", "kw_false", "pos_true", "pos_false"}
\* kwargs.get('force_insert', False)
kwargs_get_force_insert(a) == a = "kw_true"
\* the force_insert parameter as pw.Model.save(force_insert=False, only=None) binds it
ForceInsert(a) == a \in {"kw_true", "pos_true"}

\* The only= option a caller passes to save: none, a list that names updated_at, a
\* list that names other fields only
OnlyArgs == {"absent", "updated_at", "created_at"}
\* the fields pw.Model.save persists, field_dict pruned to only, hold updated_at
WritesUpdatedAt(o) == o \in {"absent", "updated_at"}
\* the fields pw.Model.save persists hold a key
WritesPk(o, pk_value) == o = "absent" /\ pk_value # <<>>
\* pk_value is not None and not force_insert: pw.Model.save does an UPDATE
IsUpdate(a, pk_value) == pk_value # <<>> /\ ~ForceInsert(a)
\* pw.Model.save does an INSERT that leaves the key to auto-increment
AutoKey(a, o, pk_value) == ~IsUpdate(a, pk_value) /\ ~WritesPk(o, pk_value)
\* the greatest key a caller lets auto-increment hand out
MaxAutoPk == MaxPk + 1

\* created = kwargs.get('force_insert', False) or not bool(pk_value)
Created(a, pk_value) == kwargs_get_force_insert(a) \/ ~Bool(pk_value)

\* _touch_model(sender, instance, created): every sender here is a Model subclass
issubclass_Model == TRUE
\* (mutant) the observer leaves updated_at alone
_touch_model_skip(old, now) == old

_touch_model(old, now) == IF issubclass_Model THEN now ELSE old

\* Values a caller or a receiver may assign to updated_at
AssignValues == {Datetime(0, <<>>), Pendulum(MaxClock + 1, <<0>>)}

Returned(v) == [kind |-> "returned", val |-> v, exc |-> ""]
Raised(e) == [kind |-> "raised", val |-> <<>>, exc |-> e]
NoOutcome == [kind |-> "none", val |-> <<>>, exc |-> ""]

ModelInit ==
    /\ pc = "idle"
    /\ op = "none"
    /\ alive = FALSE
    /\ pk = <<>>
    /\ updated_at = NoneVal
    /\ clock = 0
    /\ pending = {}
    /\ args = "absent"
    /\ only = "absent"
    /\ created = FALSE
    /\ ret = <<>>
    /\ table = {}
    /\ outcome = NoOutcome
    /\ events = <<>>
    /\ before = [pk |-> <<>>, updated_at |-> NoneVal, clock |-> 0, table |-> {}]
    /\ touched = <<>>
    /\ mutated = FALSE
    /\ failed = <<>>

\* the system clock advances
Tick ==
    /\ clock < MaxClock
    /\ clock' = clock + 1
    /\ UNCHANGED <<pc, op, alive, pk, updated_at, pending, args, only, created,
                   ret, table, outcome, events, before, touched, mutated, failed>>
    /\ UNCHANGED <<fieldVars, dbVars>>

\* instance.updated_at = v
Assign(v) ==
    /\ pc = "idle"
    /\ alive
    /\ updated_at' = v
    /\ UNCHANGED <<pc, op, alive, pk, clock, pending, args, only, created, ret,
                   table, outcome, events, before, touched, mutated, failed>>
    /\ UNCHANGED <<fieldVars, dbVars>>

StartCall(o, k, u) ==
    /\ op' = o
    /\ before' = [pk |-> k, updated_at |-> u, clock |-> clock, table |-> table]
    /\ touched' = <<>>
    /\ mutated' = FALSE
    /\ failed' = <<>>
    /\ ret' = <<>>
    /\ pending' = {}

\* Model(...): super().__init__ fills the fields, updated_at from its default
InitCall(k) ==
    /\ pc = "idle"
    /\ alive' = TRUE
    /\ pk' = k
    /\ updated_at' = utcnow
    /\ StartCall("__init__", k, utcnow)
    /\ outcome' = NoOutcome
    /\ events' = <<Event("super", <<>>)>>
    /\ pc' = "send_pre"
    /\ UNCHANGED <<clock, args, only, created, table>>
    /\ UNCHANGED <<fieldVars, dbVars>>

\* save(*args, **kwargs) up to the computation of created. Callers start a save
\* that takes its key from auto-increment only while that key is at most MaxAutoPk;
\* a save that has started always reaches the engine.
SaveCall(a, o) ==
    /\ pc = "idle"
    /\ alive
    /\ AutoKey(a, o, pk) => NextId(table) <= MaxAutoPk
    /\ args' = a
    /\ only' = o
    /\ created' = Created(a, pk)
    /\ StartCall("save", pk, updated_at)
    /\ outcome' = NoOutcome
    /\ events' = <<>>
    /\ pc' = "send_pre"
    /\ UNCHANGED <<alive, pk, updated_at, clock, table>>
    /\ UNCHANGED <<fieldVars, dbVars>>

\* delete_instance(*args, **kwargs)
DeleteCall ==
    /\ pc = "idle"
    /\ alive
    /\ StartCall("delete_instance", pk, updated_at)
    /\ outcome' = NoOutcome
    /\ events' = <<>>
    /\ pc' = "send_pre"
    /\ UNCHANGED <<alive, pk, updated_at, clock, args, only, created, table>>
    /\ UNCHANGED <<fieldVars, dbVars>>

\* signal.send(type(self), instance=self[, created=created]) starts; ext are the
\* receivers code outside the module has connected to the signal by now
Send(ext) ==
    /\ pc \in {"send_pre", "send_post"}
    /\ events' = Append(events, Event(Sending, IF op = "save" THEN <<created>> ELSE <<>>))
    /\ Cardinality(ext) <= MaxObservers
    /\ pending' = ModuleReceivers[Sending] \cup ext
    /\ pc' = IF pc = "send_pre" THEN "recv_pre" ELSE "recv_post"
    /\ UNCHANGED <<op, alive, pk, updated_at, clock, args, only, created, ret, table,
                   outcome, before, touched, mutated, failed>>
    /\ UNCHANGED <<fieldVars, dbVars>>

\* (mutant) the receiver's exception is caught and the method goes on
OnReceiverErrorCaught == "swallow"

\* What a receiver's exception does to the running method: send does not catch it
OnReceiverError == "propagate"

\* send calls one of the signal's receivers
Receive(r, v) ==
    /\ pc \in {"recv_pre", "recv_post"}
    /\ r \in pending
    /\ pending' = pending \ {r}
    /\ updated_at' = CASE r = "_touch_model" -> _touch_model(updated_at, utcnow)
                       [] r = "mutate" -> v
                       [] OTHER -> updated_at
    /\ touched' = IF r = "_touch_model" THEN <<updated_at'>> ELSE touched
    /\ mutated' = (mutated \/ r = "mutate")
    /\ failed' = IF r = "raise" THEN <<Sending>> ELSE failed
    /\ IF r = "raise" /\ OnReceiverError = "propagate"
          THEN /\ pc' = "returned"
               /\ outcome' = Raised("ReceiverError")
               /\ alive' = (op # "__init__")
          ELSE UNCHANGED <<pc, outcome, alive>>
    /\ UNCHANGED <<op, pk, clock, args, only, created, ret, table, events, before>>
    /\ UNCHANGED <<fieldVars, dbVars>>

SendReturned(phase) == pc = phase /\ pending = {}

\* ret = super().save(*args, **kwargs): UPDATE ... WHERE pk when a key is set and no
\* insert is forced (ret is the number of rows matched), INSERT otherwise. only
\* prunes the fields written: an UPDATE leaves a column it does not name as it is,
\* an INSERT fills updated_at from the field's default when it is left out and
\* takes the key from auto-increment when the key is None or left out; an INSERT
\* of a key already present is refused.
SuperSave(fault) ==
    /\ op = "save"
    /\ SendReturned("recv_pre")
    /\ events' = Append(events, Event("super", <<>>))
    /\ LET update == IsUpdate(args, pk)
           hit == pk # <<>> /\ pk[1] \in TableKeys(table)
           keyed == WritesPk(only, pk)
           converts == WritesUpdatedAt(only) \/ ~update
           stored == IF WritesUpdatedAt(only) THEN db_value(updated_at)
                                              ELSE db_value(utcnow)
           exc == IF converts /\ ~stored.ok THEN stored.exc
                  ELSE IF fault THEN "DatabaseError"
                  ELSE IF ~update /\ keyed /\ hit THEN "IntegrityError"
                  ELSE ""
           newpk == IF keyed THEN pk[1] ELSE NextId(table)
       IN IF exc # ""
             THEN /\ pc' = "returned"
                  /\ outcome' = Raised(exc)
                  /\ UNCHANGED <<pk, table, ret>>
             ELSE /\ pc' = "send_post"
                  /\ IF update
                        THEN /\ table' = IF hit /\ WritesUpdatedAt(only)
                                            THEN Put(table, pk[1], stored.val)
                                            ELSE table
                             /\ ret' = <<IF hit THEN 1 ELSE 0>>
                             /\ pk' = pk
                        ELSE /\ table' = Put(table, newpk, stored.val)
                             /\ ret' = <<1>>
                             /\ pk' = <<newpk>>
                  /\ UNCHANGED outcome
    /\ UNCHANGED <<op, alive, updated_at, clock, pending, args, only, created,
                   before, touched, mutated, failed>>
    /\ UNCHANGED <<fieldVars, dbVars>>

\* ret = super().delete_instance(*args, **kwargs): DELETE ... WHERE pk, ret the
\* number of rows deleted
SuperDelete(fault) ==
    /\ op = "delete_instance"
    /\ SendReturned("recv_pre")
    /\ events' = Append(events, Event("super", <<>>))
    /\ LET hit == pk # <<>> /\ pk[1] \in TableKeys(table)
       IN IF fault
             THEN /\ pc' = "returned"
                  /\ outcome' = Raised("DatabaseError")
                  /\ UNCHANGED <<table, ret>>
             ELSE /\ pc' = "send_post"
                  /\ table' = IF hit THEN Without(table, pk[1]) ELSE table
                  /\ ret' = <<IF hit THEN 1 ELSE 0>>
                  /\ UNCHANGED outcome
    /\ UNCHANGED <<op, alive, pk, updated_at, clock, pending, args, only, created,
                   before, touched, mutated, failed>>
    /\ UNCHANGED <<fieldVars, dbVars>>

\* (mutant) the method ends without "return ret"
ReturnNone(r) == <<>>

\* return ret
ReturnValue(r) == r

\* the method returns: __init__ after pre_init, save and delete_instance after post_*
Return ==
    /\ \/ op = "__init__" /\ SendReturned("recv_pre")
       \/ op \in {"save", "delete_instance"} /\ SendReturned("recv_post")
    /\ outcome' = Returned(IF op = "__init__" THEN <<>> ELSE ReturnValue(ret))
    /\ pc' = "returned"
    /\ UNCHANGED <<op, alive, pk, updated_at, clock, pending, args, only, created,
                   ret, table, events, before, touched, mutated, failed>>
    /\ UNCHANGED <<fieldVars, dbVars>>

\* the caller goes on with the result or the error: the call's locals are gone
Done ==
    /\ pc = "returned"
    /\ pc' = "idle"
    /\ op' = "none"
    /\ pending' = {}
    /\ args' = "absent"
    /\ only' = "absent"
    /\ created' = FALSE
    /\ ret' = <<>>
    /\ outcome' = NoOutcome
    /\ events' = <<>>
    /\ before' = [pk |-> <<>>, updated_at |-> NoneVal, clock |-> 0, table |-> {}]
    /\ touched' = <<>>
    /\ mutated' = FALSE
    /\ failed' = <<>>
    /\ UNCHANGED <<alive, pk, updated_at, clock, table>>
    /\ UNCHANGED <<fieldVars, dbVars>>

\* The attributes class Meta gives self._meta
MetaAttrs == {"model_to_dict_config", "message_class"}

\* shortcuts.model_to_dict(self, ...) for the fields of the record
model_to_dict(k, u) == [id |-> k, updated_at |-> u]

\* cast_dict(d, default) with dataset.JSONExporter.default: datetimes become ISO text
cast_dict(d) ==
    [d EXCEPT !.updated_at = IF IsDatetime(@) THEN isoformat(@, TRUE) ELSE @]

to_dict(k, u) ==
    IF "serialize_config" \notin MetaAttrs THEN Raised("AttributeError")
    ELSE IF "default_kwargs" \notin MetaAttrs THEN Raised("AttributeError")
    ELSE Returned(<<cast_dict(model_to_dict(k, u))>>)

\* instance.to_dict()
ToDict ==
    /\ pc = "idle"
    /\ alive
    /\ StartCall("to_dict", pk, updated_at)
    /\ events' = <<>>
    /\ outcome' = to_dict(pk, updated_at)
    /\ pc' = "returned"
    /\ UNCHANGED <<alive, pk, updated_at, clock, args, only, created, table>>
    /\ UNCHANGED <<fieldVars, dbVars>>

\* json.dumps(self.to_dict(), **kwargs): the text of the dict
to_json(k, u) ==
    LET d == to_dict(k, u)
    IN IF d.kind = "raised" THEN d ELSE Returned(<<[json |-> d.val[1]]>>)

\* ParseDict(self.to_dict(), message_class or self._meta.message_class, ...):
\* Meta's message_class is None, so a caller has to pass one
to_message(k, u, message_class) ==
    LET d == to_dict(k, u)
    IN IF d.kind = "raised" THEN d
       ELSE IF ~message_class THEN Raised("AttributeError")
       ELSE Returned(<<[message |-> d.val[1]]>>)

\* instance.to_json()
ToJson ==
    /\ pc = "idle"
    /\ alive
    /\ StartCall("to_json", pk, updated_at)
    /\ events' = <<>>
    /\ outcome' = to_json(pk, updated_at)
    /\ pc' = "returned"
    /\ UNCHANGED <<alive, pk, updated_at, clock, args, only, created, table>>
    /\ UNCHANGED <<fieldVars, dbVars>>

\* instance.to_message(message_class)
ToMessage(message_class) ==
    /\ pc = "idle"
    /\ alive
    /\ StartCall("to_message", pk, updated_at)
    /\ events' = <<>>
    /\ outcome' = to_message(pk, updated_at, message_class)
    /\ pc' = "returned"
    /\ UNCHANGED <<alive, pk, updated_at, clock, args, only, created, table>>
    /\ UNCHANGED <<fieldVars, dbVars>>

\* The mappings a caller hands to update_from_dict: items in the mapping's order,
\* each a key with its value; "bogus" is a key that names no field of the record.
Item(key, k, v) == [key |-> key, pk |-> k, val |-> v]
Items ==
    {Item("id", k, NoneVal) : k \in PkValues}
    \cup {Item("updated_at", <<>>, v) : v \in AssignValues}
    \cup {Item("bogus", <<>>, NoneVal)}
Keys == {it.key : it \in Items}
Mappings ==
    {m \in UNION {[1..n -> Items] : n \in 0..Cardinality(Keys)} :
        \A i, j \in 1..Len(m) : i # j => m[i].key # m[j].key}

\* shortcuts.update_model_from_dict(self, data, ignore_unknown): the keys are taken
\* in the mapping's order and each known one is assigned; an unknown key raises
\* unless ignore_unknown, the keys before it staying assigned
RECURSIVE update_model_from_dict(_, _, _)
update_model_from_dict(rec, data, ignore_unknown) ==
    IF data = <<>> THEN rec
    ELSE LET it == Head(data)
         IN CASE it.key = "id" ->
                    update_model_from_dict([rec EXCEPT !.pk = it.pk], Tail(data),
                                           ignore_unknown)
              [] it.key = "updated_at" ->
                    update_model_from_dict([rec EXCEPT !.updated_at = it.val],
                                           Tail(data), ignore_unknown)
              [] OTHER ->
                    IF ignore_unknown
                       THEN update_model_from_dict(rec, Tail(data), ignore_unknown)
                       ELSE [rec EXCEPT !.exc = "AttributeError"]

\* instance.update_from_dict(data, ignore_unknown): no signal, no engine call; the
\* instance is what it returns
UpdateFromDict(data, ignore_unknown) ==
    /\ pc = "idle"
    /\ alive
    /\ StartCall("update_from_dict", pk, updated_at)
    /\ events' = <<>>
    /\ LET res == update_model_from_dict([pk |-> pk, updated_at |-> updated_at, exc |-> ""],
                                         data, ignore_unknown)
       IN /\ pk' = res.pk
          /\ updated_at' = res.updated_at
          /\ outcome' = IF res.exc = "" THEN Returned(<<>>) ELSE Raised(res.exc)
    /\ pc' = "returned"
    /\ UNCHANGED <<alive, clock, args, only, created, table>>
    /\ UNCHANGED <<fieldVars, dbVars>>

ModelNext ==
    \/ Tick
    \/ \E v \in AssignValues : Assign(v)
    \/ \E k \in PkValues : InitCall(k)
    \/ \E a \in SaveArgs, o \in OnlyArgs : SaveCall(a, o)
    \/ DeleteCall
    \/ \E ext \in SUBSET External : Send(ext)
    \/ \E r \in {"_touch_model"} \cup External, v \in AssignValues : Receive(r, v)
    \/ \E fault \in BOOLEAN : SuperSave(fault)
    \/ \E fault \in BOOLEAN : SuperDelete(fault)
    \/ Return
    \/ Done
    \/ ToDict
    \/ ToJson
    \/ \E message_class \in BOOLEAN : ToMessage(message_class)
    \/ \E data \in Mappings, ignore_unknown \in BOOLEAN :
          UpdateFromDict(data, ignore_unknown)

(***************************************************************************)
(* SmartDatabase over a pooled database                                    *)
(***************************************************************************)
Threads == {"t1", "t2"}
Conns == 1..MaxConns

\* self.in_transaction(): the thread's transaction stack is not empty
in_transaction(t) == \E i \in 1..Len(frames[t]) : frames[t][i] = "atomic"
\* self.is_closed()
is_closed(t) == conn[t] = 0

NoCall == [inTx |-> FALSE, held |-> 0, scopes |-> 0, acquired |-> 0, ran |-> FALSE,
           result |-> "none"]

DbInit ==
    /\ dpc = [t \in Threads |-> "idle"]
    /\ frames = [t \in Threads |-> <<>>]
    /\ conn = [t \in Threads |-> 0]
    /\ pool = Conns
    /\ call = [t \in Threads |-> NoCall]

\* the pool's connect(): an idle connection becomes the thread's
Connects(t, c) ==
    /\ c \in pool
    /\ conn' = [conn EXCEPT ![t] = c]
    /\ pool' = pool \ {c}

\* the pool's close(): the thread's connection, if any, goes back to the pool
Closes(t) ==
    /\ conn' = [conn EXCEPT ![t] = 0]
    /\ pool' = IF is_closed(t) THEN pool ELSE pool \cup {conn[t]}

\* the caller enters "with db.connection_context():" (outside any transaction);
\* with the pool exhausted connect() raises and the block is not entered
EnterContext(t, c) ==
    /\ dpc[t] = "idle"
    /\ Len(frames[t]) < MaxDepth
    /\ ~in_transaction(t)
    /\ IF is_closed(t) THEN Connects(t, c) ELSE UNCHANGED <<conn, pool>>
    /\ frames' = [frames EXCEPT ![t] = Append(@, "ctx")]
    /\ UNCHANGED <<dpc, call>>
    /\ UNCHANGED <<fieldVars, modelVars>>

\* the caller leaves the innermost block
Top(t) == frames[t][Len(frames[t])]
Pop(t) == frames' = [frames EXCEPT ![t] = SubSeq(@, 1, Len(@) - 1)]

ExitContext(t) ==
    /\ dpc[t] = "idle"
    /\ frames[t] # <<>>
    /\ Top(t) = "ctx"
    /\ Closes(t)
    /\ Pop(t)
    /\ UNCHANGED <<dpc, call>>
    /\ UNCHANGED <<fieldVars, modelVars>>

\* the caller enters "with db.atomic():"; BEGIN connects when the database is closed
EnterAtomic(t, c) ==
    /\ dpc[t] = "idle"
    /\ Len(frames[t]) < MaxDepth
    /\ IF is_closed(t) THEN Connects(t, c) ELSE UNCHANGED <<conn, pool>>
    /\ frames' = [frames EXCEPT ![t] = Append(@, "atomic")]
    /\ UNCHANGED <<dpc, call>>
    /\ UNCHANGED <<fieldVars, modelVars>>

ExitAtomic(t) ==
    /\ dpc[t] = "idle"
    /\ frames[t] # <<>>
    /\ Top(t) = "atomic"
    /\ Pop(t)
    /\ UNCHANGED <<dpc, conn, pool, call>>
    /\ UNCHANGED <<fieldVars, modelVars>>

\* (mutant) the test of in_transaction() is missing: every statement gets a scope
NeedsScopeAlways(t) == TRUE

\* (mutant) the scope is entered and left by plain calls: no exit when the statement raises
ExitsOnErrorNever == FALSE

\* if self.in_transaction(): ... (else) with self.connection_context(): ...
NeedsScope(t) == ~in_transaction(t)

\* the with statement runs the scope's exit when the statement raised
ExitsOnError == TRUE

\* execute(*args, **kwargs) is called
Execute(t) ==
    /\ dpc[t] = "idle"
    /\ call' = [call EXCEPT ![t] = [NoCall EXCEPT !.inTx = in_transaction(t),
                                                  !.held = conn[t]]]
    /\ dpc' = [dpc EXCEPT ![t] = IF NeedsScope(t) THEN "enter" ELSE "direct"]
    /\ UNCHANGED <<frames, conn, pool>>
    /\ UNCHANGED <<fieldVars, modelVars>>

\* connection_context().__enter__: connect when the database is closed
ScopeEnter(t, c) ==
    /\ dpc[t] = "enter"
    /\ IF is_closed(t) /\ pool = {}
          THEN /\ dpc' = [dpc EXCEPT ![t] = "returned"]
               /\ call' = [call EXCEPT ![t].result = "MaxConnectionsExceeded"]
               /\ UNCHANGED <<conn, pool>>
          ELSE /\ dpc' = [dpc EXCEPT ![t] = "scoped"]
               /\ IF is_closed(t)
                     THEN /\ Connects(t, c)
                          /\ call' = [call EXCEPT ![t].scopes = @ + 1, ![t].acquired = c]
                     ELSE /\ UNCHANGED <<conn, pool>>
                          /\ call' = [call EXCEPT ![t].scopes = @ + 1]
    /\ UNCHANGED frames
    /\ UNCHANGED <<fieldVars, modelVars>>

\* super().execute(*args, **kwargs): the statement runs, or raises
Statement(t, fault) ==
    /\ dpc[t] \in {"direct", "scoped"}
    /\ call' = [call EXCEPT ![t].ran = TRUE,
                            ![t].result = IF fault THEN "raised" ELSE "returned"]
    /\ dpc' = [dpc EXCEPT ![t] = IF dpc[t] = "scoped" /\ (~fault \/ ExitsOnError)
                                    THEN "exit" ELSE "returned"]
    /\ UNCHANGED <<frames, conn, pool>>
    /\ UNCHANGED <<fieldVars, modelVars>>

\* connection_context().__exit__: self.db.close()
ScopeExit(t) ==
    /\ dpc[t] = "exit"
    /\ Closes(t)
    /\ dpc' = [dpc EXCEPT ![t] = "returned"]
    /\ UNCHANGED <<frames, call>>
    /\ UNCHANGED <<fieldVars, modelVars>>

\* the caller has the result, or the error, of execute
ExecuteReturn(t) ==
    /\ dpc[t] = "returned"
    /\ dpc' = [dpc EXCEPT ![t] = "idle"]
    /\ UNCHANGED <<frames, conn, pool, call>>
    /\ UNCHANGED <<fieldVars, modelVars>>

DbNext ==
    \/ \E t \in Threads, c \in Conns : EnterContext(t, c)
    \/ \E t \in Threads : ExitContext(t)
    \/ \E t \in Threads, c \in Conns : EnterAtomic(t, c)
    \/ \E t \in Threads : ExitAtomic(t)
    \/ \E t \in Threads : Execute(t)
    \/ \E t \in Threads, c \in Conns : ScopeEnter(t, c)
    \/ \E t \in Threads, fault \in BOOLEAN : Statement(t, fault)
    \/ \E t \in Threads : ScopeExit(t)
    \/ \E t \in Threads : ExecuteReturn(t)

(***************************************************************************)
(* Specifications                                                          *)
(***************************************************************************)
Init == FieldInit /\ ModelInit /\ DbInit

SpecField == Init /\ [][FieldNext]_vars
SpecModel == Init /\ [][ModelNext]_vars
SpecDb == Init /\ [][DbNext]_vars

(***************************************************************************)
(* DatetimeTZField: properties                                             *)
(***************************************************************************)
\* db_value has run on fIn
Converted == fpc # "new"

\* What db_value must do with fIn, failing with an error of the class errorClass
DbValueContract(errorClass) ==
    /\ fIn.kind = "None" => fDb = Ok(NoneVal)
    /\ fIn.kind # "None" /\ ~IsDatetime(fIn)
          => fDb = Raise(errorClass, "datetime instance required")
    /\ IsDatetime(fIn) /\ utcoffset(fIn) = <<>>
          => fDb = Raise(errorClass, "timezone aware datetime required")
    /\ IsAware(fIn) => fDb.ok

\* C1 as stated: db_value fails with an InvalidValue error for every value that is
\* not None and is not a datetime ('datetime instance required') or is a naive
\* datetime ('timezone aware datetime required'); None gives None, an aware
\* datetime does not fail.
C1_InvalidValue == Converted => DbValueContract("InvalidValue")

\* C1 amended: the same, the error being Python's ValueError.
C1_ValueError == Converted => DbValueContract("ValueError")

C1_Witness ==
    /\ fpc = "failed"
    /\ fIn.kind = "datetime"
    /\ utcoffset(fIn) = <<>>
    /\ fDb.msg = "timezone aware datetime required"

\* C2: for every timezone-aware t, db_value(t) has UTC offset zero and denotes the
\* instant of t, and python_value of what any driver hands back for it (an aware
\* datetime, a naive datetime or text holding the UTC wall clock) is timezone-aware
\* and denotes the instant of t.
C2_RoundTrip ==
    IsAware(fIn) =>
        /\ Converted => /\ fDb.ok
                        /\ utcoffset(fDb.val) = <<0>>
                        /\ Instant(fDb.val) = Instant(fIn)
        /\ fpc = "read" => /\ fOut.ok
                           /\ IsAware(fOut.val)
                           /\ Instant(fOut.val) = Instant(fIn)

\* a Pendulum east of UTC, written before midnight UTC of the previous day and read
\* back from text without an offset
C2_Witness ==
    /\ fpc = "read"
    /\ fIn.kind = "Pendulum"
    /\ utcoffset(fIn) = <<MaxOff>>
    /\ fRaw.kind = "str"
    /\ Len(fRaw.text) = 2
    /\ fRaw.text[1] < 0
    /\ fOut.ok

(***************************************************************************)
(* Model: properties                                                       *)
(***************************************************************************)
Names(evs) == [i \in 1..Len(evs) |-> evs[i].name]
ReturnedFrom(o) == op = o /\ pc = "returned" /\ outcome.kind = "returned"

\* C3: a save that completes normally did pre_save, the engine's write, post_save,
\* in this order and once each, and returned the engine's result; a
\* delete_instance that completes normally did pre_delete, the engine's delete,
\* post_delete and returned the engine's result; no post_* event is emitted
\* before the delegated call of the operation has returned.
C3_Order ==
    /\ ReturnedFrom("save")
          => /\ Names(events) = <<"pre_save", "super", "post_save">>
             /\ ret # <<>>
             /\ outcome.val = ret
    /\ ReturnedFrom("delete_instance")
          => /\ Names(events) = <<"pre_delete", "super", "post_delete">>
             /\ ret # <<>>
             /\ outcome.val = ret
    /\ \A i \in 1..Len(events) :
          events[i].name \in {"post_save", "post_delete"}
             => /\ ret # <<>>
                /\ \E j \in 1..(i - 1) : events[j].name = "super"

\* a save that updated the record's row and returned the engine's count of 1
C3_Witness ==
    /\ ReturnedFrom("save")
    /\ Len(events) = 3
    /\ pk[1] \in TableKeys(before.table)
    /\ outcome.val = <<1>>

\* C4 as stated: the pre_save and post_save events of a save carry the same
\* created flag, and the flag is true exactly when the record had no primary key
\* set before the call or the caller asked for a forced insert, whatever the key's
\* value and however force_insert was passed.
C4_Created ==
    op = "save" =>
        \A i \in 1..Len(events) :
            events[i].name \in {"pre_save", "post_save"}
                => events[i].created = <<(before.pk = <<>> \/ ForceInsert(args))>>

\* C5 as stated: after any save the record's updated_at is at or after the
\* updated_at before the save, is timezone-aware and is the value the default
\* pre_save observer set before the delegated write ran.
C5_Monotone ==
    ReturnedFrom("save") =>
        /\ IsAware(updated_at)
        /\ touched = <<updated_at>>
        /\ IsAware(before.updated_at) => Instant(updated_at) >= Instant(before.updated_at)

\* C5 amended: after a save that completes normally and in which no other receiver
\* assigns updated_at, the record's updated_at is timezone-aware (UTC), is the
\* reading of the clock the default pre_save observer took during the call, before
\* the delegated write, so the row the write inserted or matched carries it when
\* the save writes updated_at (no only option, or one that names updated_at); it
\* is at or after the updated_at before the save whenever that value was not ahead
\* of the clock when save was called.
C5_Touched ==
    ReturnedFrom("save") /\ ~mutated =>
        /\ IsAware(updated_at)
        /\ utcoffset(updated_at) = <<0>>
        /\ touched = <<updated_at>>
        /\ before.clock <= Instant(updated_at)
        /\ Instant(updated_at) <= clock
        /\ ret = <<1>> /\ WritesUpdatedAt(only)
              => \E r \in table : /\ r.pk = pk[1]
                                    /\ IsAware(r.updated_at)
                                    /\ Instant(r.updated_at) = Instant(updated_at)
        /\ IsAware(before.updated_at) /\ Instant(before.updated_at) <= before.clock
              => Instant(updated_at) >= Instant(before.updated_at)

\* a second save of a record, later than the first, which wrote the new reading
C5_Witness ==
    /\ ReturnedFrom("save")
    /\ ~mutated
    /\ ret = <<1>>
    /\ only = "updated_at"
    /\ IsAware(before.updated_at)
    /\ pk[1] \in TableKeys(before.table)
    /\ Instant(updated_at) > Instant(before.updated_at)

\* C6: a receiver's failure is not caught: the error reaches the caller; after a
\* failure in pre_save or pre_delete the delegated write or delete is not
\* performed and no post_* event is emitted; after a failure in pre_init the
\* construction fails.
C6_Propagates ==
    failed # <<>> =>
        /\ pc = "returned"
        /\ outcome = Raised("ReceiverError")
        /\ failed[1] \in {"pre_save", "pre_delete"}
              => /\ \A i \in 1..Len(events) :
                        events[i].name \notin {"super", "post_save", "post_delete"}
                 /\ table = before.table
                 /\ ret = <<>>
        /\ failed[1] = "pre_init" => ~alive

\* a pre_save receiver raised after _touch_model had run, the table holding a row
C6_Witness ==
    /\ failed = <<"pre_save">>
    /\ touched # <<>>
    /\ table # {}
    /\ outcome.kind = "raised"

\* C9 as stated: to_dict() completes and returns cast_dict of the host's
\* model-to-dict conversion of the record.
C9_ToDict ==
    op = "to_dict" => outcome = Returned(<<cast_dict(model_to_dict(pk, updated_at))>>)

(***************************************************************************)
(* SmartDatabase: properties                                               *)
(***************************************************************************)
\* C7: execute opens a connection scope only when no transaction is active: called
\* inside a transaction it runs the statement directly and opens no scope; called
\* with no transaction active it runs the statement inside exactly one scope
\* opened for that statement.
C7_ScopeOnlyOutsideTransaction ==
    \A t \in Threads :
        /\ call[t].ran => call[t].scopes = (IF call[t].inTx THEN 0 ELSE 1)
        /\ dpc[t] = "direct" => call[t].inTx /\ call[t].scopes = 0
        /\ dpc[t] = "scoped" => ~call[t].inTx /\ call[t].scopes = 1
        /\ call[t].scopes <= 1

\* one thread's execute has returned from inside an atomic block, the other's from
\* a standalone call
C7_Witness ==
    \E t, u \in Threads :
        /\ dpc[t] = "returned" /\ call[t].ran /\ call[t].inTx
        /\ dpc[u] = "returned" /\ call[u].ran /\ ~call[u].inTx

\* C8: the scope execute opens for a standalone statement is released on every
\* exit path: when execute has returned or raised, no transaction being active at
\* the call, the thread holds no connection and the connection the scope acquired
\* is idle in the pool again or already reused by another thread.
C8_Released ==
    \A t \in Threads :
        dpc[t] = "returned" /\ ~call[t].inTx =>
            /\ is_closed(t)
            /\ call[t].acquired # 0 =>
                  \/ call[t].acquired \in pool
                  \/ \E u \in Threads \ {t} : conn[u] = call[t].acquired

\* a standalone statement raised inside the scope that had acquired a connection
C8_Witness ==
    \E t \in Threads :
        /\ dpc[t] = "returned"
        /\ call[t].result = "raised"
        /\ call[t].acquired # 0
        /\ frames[t] = <<>>

\* C10 as stated: execute called inside a connection_context the caller holds, no
\* transaction being active, leaves the caller's connection open.
C10_CallerScopeKept ==
    \A t \in Threads :
        (/\ dpc[t] = "returned"
         /\ ~call[t].inTx
         /\ call[t].held # 0
         /\ frames[t] # <<>>) => conn[t] = call[t].held

====
